---- MODULE Spec2Model ----
(***************************************************************************)
(* Weak references of the Kotlin/Native runtime                            *)
(* (runtime/src/main/cpp/Weak.cpp).                                        *)
(*                                                                         *)
(* Three entry points are modelled, each as the sequence of its shared-    *)
(* memory steps, executed by NumThreads threads in any interleaving:       *)
(*   Konan_getWeakReferenceImpl       acquire-or-create the Counter        *)
(*   Konan_WeakReferenceCounter_get   materialize a Counter                *)
(*   WeakReferenceCounterClear        invalidate a Counter                 *)
(* The collaborators that live outside Weak.cpp (the Counter constructor,  *)
(* the install-if-null primitive, the foreign adapter, the collector) are  *)
(* modelled from their contract.                                           *)
(***************************************************************************)
EXTENDS Integers, FiniteSets, Sequences, TLC

\* ---- bounds of the model ------------------------------------------------
NumThreads == 2
NumNative == 2
NumForeign == 1

Threads == 1..NumThreads
NativeReferents == 1..NumNative
ForeignReferents == (NumNative + 1)..(NumNative + NumForeign)
Referents == NativeReferents \cup ForeignReferents
\* Counter identities. A thread constructs a Counter only after reading a
\* null Cache entry (line 56), and the entry is non-null once its install
\* (line 60) has run, so a thread constructs at most one Counter per native
\* referent: this many identities are never exhausted.
Counters == 1..(NumThreads * NumNative)

\* nullptr
NULL == 0
\* A pointer value that is neither a referent nor null: what a racing,
\* unsynchronized read of the slot may yield.
Wild == NumNative + NumForeign + 1

\* Mutant: the foreign dispatch is compiled out.
KONAN_OBJC_INTEROP_off == FALSE

\* Build configuration: foreign interop is compiled in.
KONAN_OBJC_INTEROP == TRUE

VARIABLES
    counter_,      \* meta->counter_ : the Counter Cache entry of each referent
    referred,      \* the slot of each Counter (field at referredOffset)
    lockWord,      \* the exclusion flag of each Counter (field at lockOffset)
    allocated,     \* Counters created so far by makeWeakReferenceCounter
    pc,            \* position of each thread in the function it executes
    op,            \* the entry point each thread is executing
    arg,           \* its argument: a referent (acquire) or a Counter
    counter,       \* local `counter` of Konan_getWeakReferenceImpl (line 59)
    loaded,        \* value of *referredAddress read at line 74
    holder,        \* ObjHolder holder of Konan_WeakReferenceCounter_get
    result,        \* OBJ_RESULT of the call
    reclaiming,    \* referent a collecting thread is about to repurpose
    repurposed,    \* referents whose storage has been repurposed
    aborted,       \* RuntimeAssert of unlock() has fired
    boundTo,       \* referent each Counter was constructed for
    cleared,       \* a WeakReferenceCounterClear call on the Counter has returned
    afterClear,    \* the thread's get started after a clear had returned
    overlap,       \* calls may overlap in time (threads are used)
    referredNT,    \* the slot of each Counter in the KONAN_NO_THREADS build
    resultNT       \* result of the call in the KONAN_NO_THREADS build

vars == <<counter_, referred, lockWord, allocated, pc, op, arg, counter,
          loaded, holder, result, reclaiming, repurposed, aborted, boundTo,
          cleared, afterClear, overlap, referredNT, resultNT>>

heapVars == <<counter_, referred, lockWord, allocated, boundTo>>
gcVars == <<reclaiming, repurposed>>
ntVars == <<referredNT, resultNT>>

NoResult == [kind |-> "none", val |-> NULL]

\* ---- collaborators ------------------------------------------------------

\* IsInstance(referred, theObjCObjectWrapperTypeInfo)
IsInstance(r) == r \in ForeignReferents

\* meta->associatedObject_ : the wrapped foreign handle
associatedObject_(r) == r - NumNative

\* makeObjCWeakReferenceImpl: a foreign weak handle keyed on the wrapped handle
makeObjCWeakReferenceImpl(h) == [kind |-> "objcweak", val |-> h]

\* The allocator hands out a Counter that does not exist yet.
FreshCounter == CHOOSE c \in Counters \ allocated :
                    \A d \in Counters \ allocated : c <= d

\* __sync_val_compare_and_swap(address, expected, new): the value found and
\* the value left behind.
CompareAndSwap(cur, expected, new) ==
    [old |-> cur, now |-> IF cur = expected THEN new ELSE cur]

\* UpdateRefIfNull(location, object): atomic install-if-null.
UpdateRefIfNull(cur, object) ==
    IF object # NULL THEN CompareAndSwap(cur, NULL, object).now ELSE cur

\* The rooting mechanism: references to referent r held for a caller.
Rooted(r) ==
    \E t \in Threads :
        \/ holder[t] = r
        \/ result[t].kind = "obj" /\ result[t].val = r
        \/ op[t] = "acquire" /\ arg[t] = r

\* Counters an application or the collector can name: the installed ones.
Installed == {counter_[r] : r \in NativeReferents} \ {NULL}

\* No call of another thread is in progress.
Quiet(t) == \A u \in Threads \ {t} : pc[u] \in {"idle", "done"}

\* A thread may call when it is not inside a call; in the no-overlap harness
\* also no other thread is.
MayStart(t) ==
    /\ ~aborted
    /\ pc[t] \in {"idle", "done"}
    /\ overlap \/ Quiet(t)

\* Thread t is at position p.  A failed RuntimeAssert is fatal: nothing runs
\* after it.
At(t, p) == ~aborted /\ pc[t] = p

\* ---- initial state ------------------------------------------------------
InitCommon ==
    /\ counter_ = [r \in Referents |-> NULL]
    /\ referred = [c \in Counters |-> NULL]
    /\ lockWord = [c \in Counters |-> 0]
    /\ allocated = {}
    /\ pc = [t \in Threads |-> "idle"]
    /\ op = [t \in Threads |-> "none"]
    /\ arg = [t \in Threads |-> NULL]
    /\ counter = [t \in Threads |-> NULL]
    /\ loaded = [t \in Threads |-> NULL]
    /\ holder = [t \in Threads |-> NULL]
    /\ result = [t \in Threads |-> NoResult]
    /\ reclaiming = [t \in Threads |-> NULL]
    /\ repurposed = {}
    /\ aborted = FALSE
    /\ boundTo = [c \in Counters |-> NULL]
    /\ cleared = [c \in Counters |-> FALSE]
    /\ afterClear = [t \in Threads |-> FALSE]
    /\ referredNT = [c \in Counters |-> NULL]
    /\ resultNT = [t \in Threads |-> NULL]

Init == InitCommon /\ overlap = TRUE

InitSeq == InitCommon /\ overlap = FALSE

\* ---- lock / unlock ------------------------------------------------------

\* Mutant: the flag is stored without waiting for it to be free.
lock_noWait(c) ==
    lockWord' = [lockWord EXCEPT ![c] = 1]

\* Mutant: the flag address is computed from the wrong object, so every
\* Counter is guarded by the flag of the first one.
lock_wrongCounter(c) ==
    LET cas == CompareAndSwap(lockWord[1], 0, 1) IN
    /\ cas.old # 1
    /\ lockWord' = [lockWord EXCEPT ![1] = cas.now]

\* lock(address): the loop leaves once the compare-and-swap returns a value
\* other than 1; while it returns 1 the thread spins without changing state.
lock(c) ==
    LET cas == CompareAndSwap(lockWord[c], 0, 1) IN
    /\ cas.old # 1
    /\ lockWord' = [lockWord EXCEPT ![c] = cas.now]

\* Mutant: the compare-and-swap of unlock never stores 0.
unlock_noRelease(c) ==
    LET cas == CompareAndSwap(lockWord[c], 1, 1) IN
    /\ lockWord' = [lockWord EXCEPT ![c] = cas.now]
    /\ aborted' = (cas.old # 1)

\* unlock(address): compare-and-swap 1 -> 0, RuntimeAssert(old == 1).
unlock(c) ==
    LET cas == CompareAndSwap(lockWord[c], 1, 0) IN
    /\ lockWord' = [lockWord EXCEPT ![c] = cas.now]
    /\ aborted' = (cas.old # 1)

\* ---- Konan_getWeakReferenceImpl ----------------------------------------

\* Mutant: the test of line 56 is missing, a candidate is always allocated.
GwEnter_alwaysAllocates(t) ==
    /\ MayStart(t)
    /\ \E r \in Referents \ repurposed :
        /\ op' = [op EXCEPT ![t] = "acquire"]
        /\ arg' = [arg EXCEPT ![t] = r]
        /\ IF KONAN_OBJC_INTEROP /\ IsInstance(r)
           THEN /\ result' = [result EXCEPT ![t] =
                                makeObjCWeakReferenceImpl(associatedObject_(r))]
                /\ pc' = [pc EXCEPT ![t] = "done"]
           ELSE /\ result' = [result EXCEPT ![t] = NoResult]
                /\ pc' = [pc EXCEPT ![t] = "gw_alloc"]
    /\ afterClear' = [afterClear EXCEPT ![t] = FALSE]
    /\ resultNT' = [resultNT EXCEPT ![t] = NULL]
    /\ UNCHANGED <<heapVars, counter, loaded, holder, gcVars, aborted,
                   cleared, overlap, referredNT>>

\* Entry and lines 47-56: the foreign dispatch, decided on the referent's
\* type, then the unsynchronized read of the Cache entry.  The caller holds a
\* live referent.
GwEnter(t) ==
    /\ MayStart(t)
    /\ \E r \in Referents \ repurposed :
        /\ op' = [op EXCEPT ![t] = "acquire"]
        /\ arg' = [arg EXCEPT ![t] = r]
        /\ IF KONAN_OBJC_INTEROP /\ IsInstance(r)
           THEN /\ result' = [result EXCEPT ![t] =
                                makeObjCWeakReferenceImpl(associatedObject_(r))]
                /\ pc' = [pc EXCEPT ![t] = "done"]
           ELSE /\ result' = [result EXCEPT ![t] = NoResult]
                /\ pc' = [pc EXCEPT ![t] = IF counter_[r] = NULL
                                           THEN "gw_alloc" ELSE "gw_ret"]
    /\ afterClear' = [afterClear EXCEPT ![t] = FALSE]
    /\ resultNT' = [resultNT EXCEPT ![t] = NULL]
    /\ UNCHANGED <<heapVars, counter, loaded, holder, gcVars, aborted,
                   cleared, overlap, referredNT>>

\* Mutant: the candidate is constructed for the wrong object.
GwAlloc_wrongReferent(t) ==
    /\ At(t, "gw_alloc")
    /\ LET c == FreshCounter
           other == (arg[t] % NumNative) + 1 IN
        /\ allocated' = allocated \cup {c}
        /\ referred' = [referred EXCEPT ![c] = other]
        /\ lockWord' = [lockWord EXCEPT ![c] = 0]
        /\ boundTo' = [boundTo EXCEPT ![c] = other]
        /\ referredNT' = [referredNT EXCEPT ![c] = other]
        /\ counter' = [counter EXCEPT ![t] = c]
    /\ pc' = [pc EXCEPT ![t] = "gw_install"]
    /\ UNCHANGED <<counter_, op, arg, loaded, holder, result, gcVars, aborted,
                   cleared, afterClear, overlap, resultNT>>

\* Lines 57-59: makeWeakReferenceCounter(referred): a new Counter whose slot
\* is the referent and whose flag is free. The allocation is unconditional.
GwAlloc(t) ==
    /\ At(t, "gw_alloc")
    /\ LET c == FreshCounter IN
        /\ allocated' = allocated \cup {c}
        /\ referred' = [referred EXCEPT ![c] = arg[t]]
        /\ lockWord' = [lockWord EXCEPT ![c] = 0]
        /\ boundTo' = [boundTo EXCEPT ![c] = arg[t]]
        /\ referredNT' = [referredNT EXCEPT ![c] = arg[t]]
        /\ counter' = [counter EXCEPT ![t] = c]
    /\ pc' = [pc EXCEPT ![t] = "gw_install"]
    /\ UNCHANGED <<counter_, op, arg, loaded, holder, result, gcVars, aborted,
                   cleared, afterClear, overlap, resultNT>>

\* Mutant: the caller returns its own candidate instead of re-reading the entry.
GwInstall_returnsCandidate(t) ==
    /\ At(t, "gw_install")
    /\ counter_' = [counter_ EXCEPT ![arg[t]] =
                        UpdateRefIfNull(counter_[arg[t]], counter[t])]
    /\ result' = [result EXCEPT ![t] = [kind |-> "counter", val |-> counter[t]]]
    /\ counter' = [counter EXCEPT ![t] = NULL]
    /\ pc' = [pc EXCEPT ![t] = "done"]
    /\ UNCHANGED <<referred, lockWord, allocated, boundTo, op, arg, loaded,
                   holder, gcVars, aborted, cleared, afterClear, overlap,
                   ntVars>>

\* Mutant: the candidate is stored into the entry with a plain assignment.
GwInstall_plainStore(t) ==
    /\ At(t, "gw_install")
    /\ counter_' = [counter_ EXCEPT ![arg[t]] = counter[t]]
    /\ counter' = [counter EXCEPT ![t] = NULL]
    /\ pc' = [pc EXCEPT ![t] = "gw_ret"]
    /\ UNCHANGED <<referred, lockWord, allocated, boundTo, op, arg, loaded,
                   holder, result, gcVars, aborted, cleared, afterClear,
                   overlap, ntVars>>

\* Mutant: the install of line 60 is missing.
GwInstall_skipped(t) ==
    /\ At(t, "gw_install")
    /\ counter' = [counter EXCEPT ![t] = NULL]
    /\ pc' = [pc EXCEPT ![t] = "gw_ret"]
    /\ UNCHANGED <<heapVars, op, arg, loaded, holder, result, gcVars, aborted,
                   cleared, afterClear, overlap, ntVars>>

\* Line 60-61: UpdateRefIfNull(&meta->counter_, counter); the candidate's
\* holder goes out of scope.
GwInstall(t) ==
    /\ At(t, "gw_install")
    /\ counter_' = [counter_ EXCEPT ![arg[t]] =
                        UpdateRefIfNull(counter_[arg[t]], counter[t])]
    /\ counter' = [counter EXCEPT ![t] = NULL]
    /\ pc' = [pc EXCEPT ![t] = "gw_ret"]
    /\ UNCHANGED <<referred, lockWord, allocated, boundTo, op, arg, loaded,
                   holder, result, gcVars, aborted, cleared, afterClear,
                   overlap, ntVars>>

\* Mutant: the re-read waits until the flag of the installed Counter is free.
GwRet_waitsForFlag(t) ==
    /\ At(t, "gw_ret")
    /\ counter_[arg[t]] # NULL => lockWord[counter_[arg[t]]] = 0
    /\ result' = [result EXCEPT ![t] =
                    [kind |-> "counter", val |-> counter_[arg[t]]]]
    /\ pc' = [pc EXCEPT ![t] = "done"]
    /\ UNCHANGED <<heapVars, op, arg, counter, loaded, holder, gcVars, aborted,
                   cleared, afterClear, overlap, ntVars>>

\* Line 62: RETURN_OBJ(meta->counter_): the final re-read of the entry.
GwRet(t) ==
    /\ At(t, "gw_ret")
    /\ result' = [result EXCEPT ![t] =
                    [kind |-> "counter", val |-> counter_[arg[t]]]]
    /\ pc' = [pc EXCEPT ![t] = "done"]
    /\ UNCHANGED <<heapVars, op, arg, counter, loaded, holder, gcVars, aborted,
                   cleared, afterClear, overlap, ntVars>>

Konan_getWeakReferenceImpl(t) ==
    GwEnter(t) \/ GwAlloc(t) \/ GwInstall(t) \/ GwRet(t)

\* ---- Konan_WeakReferenceCounter_get -------------------------------------

\* Entry, lines 66-71.  In the no-overlap harness the same call is also made
\* on the KONAN_NO_THREADS build (line 69: RETURN_OBJ(*referredAddress)).
GetEnter(t) ==
    /\ MayStart(t)
    /\ \E c \in Installed :
        /\ op' = [op EXCEPT ![t] = "get"]
        /\ arg' = [arg EXCEPT ![t] = c]
        /\ afterClear' = [afterClear EXCEPT ![t] = cleared[c]]
        /\ resultNT' = [resultNT EXCEPT ![t] =
                            IF overlap THEN NULL ELSE referredNT[c]]
    /\ result' = [result EXCEPT ![t] = NoResult]
    /\ pc' = [pc EXCEPT ![t] = "get_lock"]
    /\ UNCHANGED <<heapVars, counter, loaded, holder, gcVars, aborted,
                   cleared, overlap, referredNT>>

\* Line 73: lock(lockAddress).
GetLock(t) ==
    /\ At(t, "get_lock")
    /\ lock(arg[t])
    /\ pc' = [pc EXCEPT ![t] = "get_read"]
    /\ UNCHANGED <<counter_, referred, allocated, boundTo, op, arg, counter,
                   loaded, holder, result, gcVars, aborted, cleared,
                   afterClear, overlap, ntVars>>

\* A read of the slot that is concurrent with a write of it (a thread is at
\* the store of line 89) is a data race: it may yield the old value, the new
\* one, or a torn pointer.
SlotRead(t, c) ==
    IF \E u \in Threads \ {t} : pc[u] = "clr_write" /\ arg[u] = c
    THEN {referred[c], NULL, Wild}
    ELSE {referred[c]}

\* Line 74, the load: *referredAddress.
GetRead(t) ==
    /\ At(t, "get_read")
    /\ \E v \in SlotRead(t, arg[t]) : loaded' = [loaded EXCEPT ![t] = v]
    /\ pc' = [pc EXCEPT ![t] = "get_root"]
    /\ UNCHANGED <<heapVars, op, arg, counter, holder, result, gcVars, aborted,
                   cleared, afterClear, overlap, ntVars>>

\* Mutant: the holder is constructed empty.
GetRoot_empty(t) ==
    /\ At(t, "get_root")
    /\ holder' = [holder EXCEPT ![t] = NULL]
    /\ loaded' = [loaded EXCEPT ![t] = NULL]
    /\ pc' = [pc EXCEPT ![t] = "get_unlock"]
    /\ UNCHANGED <<heapVars, op, arg, counter, result, gcVars, aborted,
                   cleared, afterClear, overlap, ntVars>>

\* Line 74, the constructor: ObjHolder holder(...) roots the loaded value.
GetRoot(t) ==
    /\ At(t, "get_root")
    /\ holder' = [holder EXCEPT ![t] = loaded[t]]
    /\ loaded' = [loaded EXCEPT ![t] = NULL]
    /\ pc' = [pc EXCEPT ![t] = "get_unlock"]
    /\ UNCHANGED <<heapVars, op, arg, counter, result, gcVars, aborted,
                   cleared, afterClear, overlap, ntVars>>

\* Mutant: the call goes on to its return without unlock().
GetUnlock_noUnlock(t) ==
    /\ At(t, "get_unlock")
    /\ pc' = [pc EXCEPT ![t] = "get_ret"]
    /\ UNCHANGED <<heapVars, op, arg, counter, loaded, holder, result, gcVars,
                   aborted, cleared, afterClear, overlap, ntVars>>

\* Line 75: unlock(lockAddress). The holder still roots what it read.
GetUnlock(t) ==
    /\ At(t, "get_unlock")
    /\ unlock(arg[t])
    /\ pc' = [pc EXCEPT ![t] = "get_ret"]
    /\ UNCHANGED <<counter_, referred, allocated, boundTo, op, arg, counter,
                   loaded, holder, result, gcVars, cleared, afterClear,
                   overlap, ntVars>>

\* Line 76: RETURN_OBJ(holder.obj()); the holder is destroyed on return.
GetReturn(t) ==
    /\ At(t, "get_ret")
    /\ result' = [result EXCEPT ![t] = [kind |-> "obj", val |-> holder[t]]]
    /\ holder' = [holder EXCEPT ![t] = NULL]
    /\ pc' = [pc EXCEPT ![t] = "done"]
    /\ UNCHANGED <<heapVars, op, arg, counter, loaded, gcVars, aborted,
                   cleared, afterClear, overlap, ntVars>>

Konan_WeakReferenceCounter_get(t) ==
    \/ GetEnter(t) \/ GetLock(t) \/ GetRead(t) \/ GetRoot(t)
    \/ GetUnlock(t) \/ GetReturn(t)

\* ---- WeakReferenceCounterClear ------------------------------------------

\* Entry, lines 80-86, called by any thread on a Counter it can name.  In the
\* no-overlap harness the same call is also made on the KONAN_NO_THREADS
\* build (line 84: *referredAddress = nullptr).
ClrEnter(t) ==
    /\ MayStart(t)
    /\ \E c \in Installed :
        /\ op' = [op EXCEPT ![t] = "clear"]
        /\ arg' = [arg EXCEPT ![t] = c]
        /\ referredNT' = IF overlap THEN referredNT
                         ELSE [referredNT EXCEPT ![c] = NULL]
    /\ result' = [result EXCEPT ![t] = NoResult]
    /\ afterClear' = [afterClear EXCEPT ![t] = FALSE]
    /\ resultNT' = [resultNT EXCEPT ![t] = NULL]
    /\ pc' = [pc EXCEPT ![t] = "clr_lock"]
    /\ UNCHANGED <<heapVars, counter, loaded, holder, gcVars, aborted,
                   cleared, overlap>>

\* Entry of the same function when the collector calls it for a referent it
\* is reclaiming: the collector picks a referent that no rooted reference
\* keeps alive at that moment, and the clear comes strictly before the storage
\* is repurposed.
CollectEnter(t) ==
    /\ MayStart(t)
    /\ \E r \in NativeReferents \ repurposed :
        /\ counter_[r] # NULL
        /\ ~Rooted(r)
        /\ \A u \in Threads : reclaiming[u] # r
        /\ op' = [op EXCEPT ![t] = "clear"]
        /\ arg' = [arg EXCEPT ![t] = counter_[r]]
        /\ reclaiming' = [reclaiming EXCEPT ![t] = r]
        /\ referredNT' = IF overlap THEN referredNT
                         ELSE [referredNT EXCEPT ![counter_[r]] = NULL]
    /\ result' = [result EXCEPT ![t] = NoResult]
    /\ afterClear' = [afterClear EXCEPT ![t] = FALSE]
    /\ resultNT' = [resultNT EXCEPT ![t] = NULL]
    /\ pc' = [pc EXCEPT ![t] = "clr_lock"]
    /\ UNCHANGED <<heapVars, counter, loaded, holder, repurposed, aborted,
                   cleared, overlap>>

\* Mutant: the slot is cleared without taking the flag.
ClrLock_skipped(t) ==
    /\ At(t, "clr_lock")
    /\ pc' = [pc EXCEPT ![t] = "clr_write"]
    /\ UNCHANGED <<heapVars, op, arg, counter, loaded, holder, result, gcVars,
                   aborted, cleared, afterClear, overlap, ntVars>>

\* Line 88: lock(lockAddress).
ClrLock(t) ==
    /\ At(t, "clr_lock")
    /\ lock(arg[t])
    /\ pc' = [pc EXCEPT ![t] = "clr_write"]
    /\ UNCHANGED <<counter_, referred, allocated, boundTo, op, arg, counter,
                   loaded, holder, result, gcVars, aborted, cleared,
                   afterClear, overlap, ntVars>>

\* Mutant: the slot is cleared with UpdateRef, which releases a reference the
\* slot never owned; a referent that nothing else roots is freed by it.
ClrWrite_updateRef(t) ==
    /\ At(t, "clr_write")
    /\ referred' = [referred EXCEPT ![arg[t]] = NULL]
    /\ repurposed' = IF referred[arg[t]] # NULL /\ ~Rooted(referred[arg[t]])
                     THEN repurposed \cup {referred[arg[t]]}
                     ELSE repurposed
    /\ pc' = [pc EXCEPT ![t] = "clr_unlock"]
    /\ UNCHANGED <<counter_, lockWord, allocated, boundTo, op, arg, counter,
                   loaded, holder, result, reclaiming, aborted, cleared,
                   afterClear, overlap, ntVars>>

\* Mutant: the store is omitted.
ClrWrite_noStore(t) ==
    /\ At(t, "clr_write")
    /\ pc' = [pc EXCEPT ![t] = "clr_unlock"]
    /\ UNCHANGED <<heapVars, op, arg, counter, loaded, holder, result, gcVars,
                   aborted, cleared, afterClear, overlap, ntVars>>

\* Mutant: a non-null pointer is stored into the slot.
ClrWrite_storesWild(t) ==
    /\ At(t, "clr_write")
    /\ referred' = [referred EXCEPT ![arg[t]] = Wild]
    /\ pc' = [pc EXCEPT ![t] = "clr_unlock"]
    /\ UNCHANGED <<counter_, lockWord, allocated, boundTo, op, arg, counter,
                   loaded, holder, result, gcVars, aborted, cleared,
                   afterClear, overlap, ntVars>>

\* Mutant: a clear that finds the slot already null returns at once, without
\* releasing the flag.
ClrWrite_earlyReturn(t) ==
    /\ At(t, "clr_write")
    /\ referred' = [referred EXCEPT ![arg[t]] = NULL]
    /\ pc' = [pc EXCEPT ![t] = IF referred[arg[t]] = NULL
                               THEN "clr_ret" ELSE "clr_unlock"]
    /\ UNCHANGED <<counter_, lockWord, allocated, boundTo, op, arg, counter,
                   loaded, holder, result, gcVars, aborted, cleared,
                   afterClear, overlap, ntVars>>

\* Line 89: *referredAddress = nullptr, a plain store (no UpdateRef).
ClrWrite(t) ==
    /\ At(t, "clr_write")
    /\ referred' = [referred EXCEPT ![arg[t]] = NULL]
    /\ pc' = [pc EXCEPT ![t] = "clr_unlock"]
    /\ UNCHANGED <<counter_, lockWord, allocated, boundTo, op, arg, counter,
                   loaded, holder, result, gcVars, aborted, cleared,
                   afterClear, overlap, ntVars>>

\* Line 90: unlock(lockAddress). The call has not returned yet.
ClrUnlock(t) ==
    /\ At(t, "clr_unlock")
    /\ unlock(arg[t])
    /\ pc' = [pc EXCEPT ![t] = "clr_ret"]
    /\ UNCHANGED <<counter_, referred, allocated, boundTo, op, arg, counter,
                   loaded, holder, result, gcVars, cleared, afterClear,
                   overlap, ntVars>>

\* Line 92: the function returns; a collector goes on to repurpose.
ClrReturn(t) ==
    /\ At(t, "clr_ret")
    /\ cleared' = [cleared EXCEPT ![arg[t]] = TRUE]
    /\ pc' = [pc EXCEPT ![t] = IF reclaiming[t] # NULL
                               THEN "gc_repurpose" ELSE "done"]
    /\ UNCHANGED <<heapVars, op, arg, counter, loaded, holder, result, gcVars,
                   aborted, afterClear, overlap, ntVars>>

WeakReferenceCounterClear(t) ==
    \/ ClrEnter(t) \/ CollectEnter(t) \/ ClrLock(t) \/ ClrWrite(t)
    \/ ClrUnlock(t) \/ ClrReturn(t)

\* ---- the collector and the callers --------------------------------------

\* The collector repurposes the storage of the referent it has cleared.  Its
\* only obligation at the weak-reference boundary is that the clear has
\* returned; it does not look again for roots taken since it chose the referent.
Repurpose(t) ==
    /\ At(t, "gc_repurpose")
    /\ repurposed' = repurposed \cup {reclaiming[t]}
    /\ reclaiming' = [reclaiming EXCEPT ![t] = NULL]
    /\ pc' = [pc EXCEPT ![t] = "done"]
    /\ UNCHANGED <<heapVars, op, arg, counter, loaded, holder, result, aborted,
                   cleared, afterClear, overlap, ntVars>>

Step(t) ==
    \/ Konan_getWeakReferenceImpl(t)
    \/ Konan_WeakReferenceCounter_get(t)
    \/ WeakReferenceCounterClear(t)
    \/ Repurpose(t)

Next == \E t \in Threads : Step(t)

Spec == Init /\ [][Next]_vars

\* Calls that never overlap in time, made on both builds.
SpecSeq == InitSeq /\ [][Next]_vars

\* Fair scheduling: every thread that can take a step eventually takes one.
SpecFair == Init /\ [][Next]_vars /\ \A t \in Threads : WF_vars(Step(t))

TypeOK ==
    /\ counter_ \in [Referents -> Counters \cup {NULL}]
    /\ referred \in [Counters -> Referents \cup {NULL}]
    /\ lockWord \in [Counters -> {0, 1}]
    /\ allocated \subseteq Counters
    /\ aborted \in BOOLEAN

\* ---- properties ----------------------------------------------------------

\* Positions between lock() and unlock().
Holding == {"get_read", "get_root", "get_unlock", "clr_write", "clr_unlock"}
Waiting == {"get_lock", "clr_lock"}

\* Thread t has returned from a call of entry point o.
Returned(t, o) == pc[t] = "done" /\ op[t] = o

\* Some materialize or clear call is in progress on Counter c.
InProgress(c) ==
    \E t \in Threads :
        pc[t] \in Holding \cup Waiting \cup {"get_ret", "clr_ret"}
            /\ arg[t] = c

\* C1: every call of Konan_getWeakReferenceImpl on a native referent returns
\* the Counter installed in the referent's Cache entry, so all callers of the
\* same referent hold the same Counter, whoever allocated it.
C1_SameCounter ==
    \A t \in Threads :
        (Returned(t, "acquire") /\ arg[t] \in NativeReferents) =>
            /\ counter_[arg[t]] # NULL
            /\ result[t] = [kind |-> "counter", val |-> counter_[arg[t]]]
            /\ \A u \in Threads :
                (Returned(u, "acquire") /\ arg[u] = arg[t]) =>
                    result[u] = result[t]

\* Two callers raced on one referent, two candidates were allocated, and both
\* callers have returned.
C1_Witness ==
    \E t, u \in Threads :
        /\ t # u
        /\ Returned(t, "acquire") /\ Returned(u, "acquire")
        /\ arg[t] = arg[u] /\ arg[t] \in NativeReferents
        /\ Cardinality({c \in allocated : boundTo[c] = arg[t]}) = 2

\* C2: a Cache entry is written at most once: every change of an entry starts
\* from null, so a non-null entry never changes; an install attempt succeeds
\* exactly when it finds the entry null, and a candidate that finds it set is
\* not installed.
C2_InstalledOnce ==
    [][/\ \A r \in Referents :
            counter_'[r] # counter_[r] => counter_[r] = NULL
       /\ \A t \in Threads :
            (pc[t] = "gw_install" /\ pc'[t] # "gw_install") =>
                /\ counter_[arg[t]] = NULL => counter_'[arg[t]] = counter[t]
                /\ counter_[arg[t]] # NULL => counter_'[arg[t]] # counter[t]
      ]_vars

\* A candidate lost the install and was discarded.
C2_Witness ==
    \E c \in allocated :
        /\ counter_[boundTo[c]] \notin {NULL, c}
        /\ \A t \in Threads : counter[t] # c

\* C3: a materialize call that starts after a clear of its Counter has
\* returned yields null.
C3_NoResurrection ==
    \A t \in Threads :
        (Returned(t, "get") /\ afterClear[t]) =>
            result[t] = [kind |-> "obj", val |-> NULL]

\* A materialize call that started after a clear has returned.
C3_Witness ==
    \E t \in Threads : Returned(t, "get") /\ afterClear[t]

\* C4: whatever clears run concurrently, a materialize call reads and returns
\* either the referent its Counter was created for or null.
C4_ReferentOrNull ==
    \A t \in Threads :
        /\ pc[t] \in {"get_root", "get_unlock", "get_ret"} =>
               {loaded[t], holder[t]} \subseteq {boundTo[arg[t]], NULL}
        /\ Returned(t, "get") =>
               /\ result[t].kind = "obj"
               /\ result[t].val \in {boundTo[arg[t]], NULL}

\* A materialize call holds the referent it has just read while a clear of
\* the same Counter waits for the flag.
C4_Witness ==
    \E t, u \in Threads :
        /\ pc[t] = "get_unlock" /\ holder[t] # NULL
        /\ pc[u] = "clr_lock" /\ arg[u] = arg[t]

\* C5 as stated: the storage of a referent is never repurposed while a caller
\* holds a non-null reference to it obtained from a materialize call.
C5_ReturnedStaysValid ==
    \A t \in Threads :
        (Returned(t, "get") /\ result[t].val # NULL) =>
            result[t].val \notin repurposed

\* C6: the slot of an existing Counter only ever changes to null.
C6_SlotMonotonic ==
    [][\A c \in allocated :
          referred'[c] # referred[c] => referred'[c] = NULL]_vars

\* A cleared Counter has been handed out again by a later acquire.
C6_Witness ==
    \E t \in Threads :
        /\ Returned(t, "acquire") /\ result[t].kind = "counter"
        /\ result[t].val # NULL
        /\ cleared[result[t].val] /\ referred[result[t].val] = NULL

\* C7: for calls that never overlap, the spinlock build returns what the
\* KONAN_NO_THREADS build returns and leaves the slot as that build does.
C7_BuildEquivalence ==
    ~overlap =>
        \A t \in Threads :
            /\ Returned(t, "get") => result[t].val = resultNT[t]
            /\ (Returned(t, "get") \/ Returned(t, "clear")) /\ Quiet(t) =>
                   referred[arg[t]] = referredNT[arg[t]]

\* Non-overlapping calls: one materialize returned the referent, then a clear
\* ran, then another materialize returned null.
C7_Witness ==
    /\ ~overlap
    /\ \E t, u \in Threads :
        /\ Returned(t, "get") /\ resultNT[t] # NULL
        /\ Returned(u, "get") /\ resultNT[u] = NULL /\ arg[u] = arg[t]

\* C8: acquisition on a foreign wrapper returns the foreign adapter's handle
\* for the wrapped object; no Counter is ever constructed for a foreign
\* referent and its Cache entry stays null.
C8_ForeignNeverNative ==
    /\ \A t \in Threads :
        (Returned(t, "acquire") /\ IsInstance(arg[t])) =>
            result[t] = makeObjCWeakReferenceImpl(associatedObject_(arg[t]))
    /\ \A r \in ForeignReferents : counter_[r] = NULL
    /\ \A c \in allocated : ~IsInstance(boundTo[c])
    /\ \A t \in Threads : pc[t] \in {"gw_alloc", "gw_install", "gw_ret"} =>
                              ~IsInstance(arg[t])

\* An acquisition on a foreign wrapper has returned the adapter's handle.
C8_Witness ==
    \E t \in Threads :
        /\ Returned(t, "acquire") /\ IsInstance(arg[t])
        /\ result[t].kind = "objcweak"

\* C9: once a clear of a Counter has returned, whenever no call is in
\* progress on the Counter its slot is null and its flag free, however many
\* further clears have run, and the assertion of unlock never fires.
C9_ClearIdempotent ==
    /\ ~aborted
    /\ \A c \in allocated :
        (cleared[c] /\ ~InProgress(c)) =>
            referred[c] = NULL /\ lockWord[c] = 0

\* Two clears of the same Counter have returned.
C9_Witness ==
    \E t, u \in Threads :
        /\ t # u
        /\ Returned(t, "clear") /\ Returned(u, "clear")
        /\ arg[t] = arg[u]

\* C10 as stated: every call waiting for the flag eventually acquires it.
C10_NoStarvation ==
    \A t \in Threads : (pc[t] \in Waiting) ~> (pc[t] \notin Waiting)

\* C10: a thread that has acquired the flag of a Counter leaves the critical
\* section and the flag is free when it has, so a held flag always becomes
\* free again.
C10_HolderReleases ==
    \A t \in Threads :
        (pc[t] \in Holding) ~>
            (/\ pc[t] \in {"get_ret", "clr_ret", "done", "gc_repurpose"}
             /\ op[t] \in {"get", "clear"}
             /\ lockWord[arg[t]] = 0)

\* A call waits for the flag that another call holds.
C10_Witness ==
    \E t, u \in Threads :
        /\ pc[t] \in Waiting /\ pc[u] \in Holding
        /\ arg[t] = arg[u] /\ lockWord[arg[t]] = 1

\* C11: at most one thread is between lock() and unlock() on a Counter, so
\* the load of line 74 and the store of line 89 on the same Counter are never
\* both pending.
C11_MutualExclusion ==
    \A t, u \in Threads :
        (t # u /\ pc[t] \in Holding /\ pc[u] \in Holding) => arg[t] # arg[u]

\* A clear is about to store into the slot while a materialize call on the
\* same Counter is kept waiting at lock().
C11_Witness ==
    \E t, u \in Threads :
        /\ pc[t] = "clr_write" /\ pc[u] = "get_lock"
        /\ arg[t] = arg[u]

\* C12: the assertion of unlock() never fires: every thread that is about to
\* execute unlock() finds the flag at 1.
C12_AssertNeverFires ==
    /\ ~aborted
    /\ \A t \in Threads :
        pc[t] \in {"get_unlock", "clr_unlock"} => lockWord[arg[t]] = 1

\* One call has executed unlock() and returned while another is about to
\* execute it.
C12_Witness ==
    \E t, u \in Threads :
        /\ Returned(t, "get") /\ pc[u] = "clr_unlock"
        /\ arg[t] = arg[u]

\* C13: locking is per Counter: a call waiting at lock() can proceed unless a
\* call on the same Counter holds the flag, whatever the flags of the other
\* Counters are, and a step of a materialize or clear call changes the slot
\* and the flag of no Counter but its own.
C13_PerCounter ==
    /\ [](\A t \in Threads :
            (pc[t] \in Waiting /\ ~aborted
               /\ \A u \in Threads :
                     pc[u] \in Holding => arg[u] # arg[t]) =>
                ENABLED (GetLock(t) \/ ClrLock(t)))
    /\ [][\A t \in Threads :
            (pc[t] \in Waiting \cup Holding \cup {"get_ret", "clr_ret"}
               /\ pc'[t] # pc[t]) =>
                \A c \in Counters \ {arg[t]} :
                    referred'[c] = referred[c] /\ lockWord'[c] = lockWord[c]
         ]_vars

\* A call has taken the flag of one Counter while a call on another Counter
\* holds that one's flag.
C13_Witness ==
    \E t, u \in Threads :
        /\ pc[t] \in Holding /\ pc[u] \in Holding
        /\ arg[t] # arg[u]
        /\ lockWord[arg[t]] = 1 /\ lockWord[arg[u]] = 1

\* Positions inside Konan_getWeakReferenceImpl and the number of steps left
\* from each.
Acquiring == {"gw_alloc", "gw_install", "gw_ret"}
StepsLeft(p) == CASE p = "gw_alloc" -> 3
                  [] p = "gw_install" -> 2
                  [] p = "gw_ret" -> 1
                  [] OTHER -> 0

\* C14: acquisition does not depend on any exclusion flag: each of its steps
\* can be taken whatever the flags are, leaves every flag as it is, and
\* brings the call closer to its return.
C14_AcquireIgnoresFlag ==
    /\ [](\A t \in Threads :
            ~aborted =>
                /\ pc[t] = "gw_alloc" => ENABLED GwAlloc(t)
                /\ pc[t] = "gw_install" => ENABLED GwInstall(t)
                /\ pc[t] = "gw_ret" => ENABLED GwRet(t))
    /\ [][\A t \in Threads :
            (pc[t] \in Acquiring /\ pc'[t] # pc[t]) =>
                /\ lockWord' = lockWord
                /\ StepsLeft(pc'[t]) < StepsLeft(pc[t])
         ]_vars

\* An acquisition is at its final re-read while another thread holds the flag
\* of the Counter installed for the same referent.
C14_Witness ==
    \E t, u \in Threads :
        /\ pc[t] = "gw_ret" /\ counter_[arg[t]] # NULL
        /\ pc[u] \in Holding /\ arg[u] = counter_[arg[t]]
        /\ lockWord[counter_[arg[t]]] = 1

\* C15: invalidation is non-owning: a step of WeakReferenceCounterClear
\* changes nothing but the slot of its Counter, which it sets to null, and
\* that Counter's flag; the Cache entries, the other Counters, the rooted
\* references and the set of live referents stay as they are.
C15_ClearNonOwning ==
    [][\A t \in Threads :
          (pc[t] \in {"clr_lock", "clr_write", "clr_unlock", "clr_ret"}
             /\ pc'[t] # pc[t]) =>
              /\ counter_' = counter_
              /\ allocated' = allocated /\ boundTo' = boundTo
              /\ holder' = holder /\ result' = result
              /\ repurposed' = repurposed
              /\ \A r \in Referents : Rooted(r)' = Rooted(r)
              /\ referred'[arg[t]] \in {referred[arg[t]], NULL}
              /\ \A c \in Counters \ {arg[t]} :
                    referred'[c] = referred[c] /\ lockWord'[c] = lockWord[c]
      ]_vars

\* A clear has nulled the slot of a Counter whose referent nothing roots,
\* while the referent is not reclaimed and another Counter still refers to
\* its own referent.
C15_Witness ==
    \E t \in Threads :
        /\ pc[t] = "clr_unlock" /\ reclaiming[t] = NULL
        /\ referred[arg[t]] = NULL
        /\ ~Rooted(boundTo[arg[t]]) /\ boundTo[arg[t]] \notin repurposed
        /\ \E c \in Installed \ {arg[t]} : referred[c] # NULL

\* C16: an acquisition on a native referent takes the cached path exactly
\* when the read of line 56 finds the entry set; on that path it holds no
\* candidate, and from the read to the return it allocates nothing, attempts
\* no install, leaves the entry unchanged and returns the entry.
C16_CachedPath ==
    [][\A t \in Threads :
          /\ (pc[t] \in {"idle", "done"} /\ pc'[t] \in Acquiring) =>
                /\ pc'[t] = (IF counter_[arg'[t]] # NULL
                             THEN "gw_ret" ELSE "gw_alloc")
                /\ allocated' = allocated /\ counter_' = counter_
                /\ counter'[t] = NULL
          /\ (pc[t] = "gw_ret" /\ pc'[t] # pc[t]) =>
                /\ pc'[t] = "done"
                /\ counter[t] = NULL
                /\ allocated' = allocated /\ counter_' = counter_
                /\ result'[t] = [kind |-> "counter", val |-> counter_[arg[t]]]
      ]_vars

\* Two acquisitions on one referent have returned the same Counter and only
\* one Counter was ever constructed for that referent: one of them took the
\* cached path.
C16_Witness ==
    \E t, u \in Threads :
        /\ t # u
        /\ Returned(t, "acquire") /\ Returned(u, "acquire")
        /\ arg[t] = arg[u] /\ arg[t] \in NativeReferents
        /\ result[t] = result[u] /\ result[t].val # NULL
        /\ Cardinality({c \in allocated : boundTo[c] = arg[t]}) = 1

\* C17: an acquisition on a native referent never returns null: when a caller
\* is at its final re-read the entry holds a constructed Counter, and that is
\* what the call returns.
C17_NeverNull ==
    \A t \in Threads :
        /\ pc[t] = "gw_ret" => counter_[arg[t]] \in allocated
        /\ (Returned(t, "acquire") /\ ~IsInstance(arg[t])) =>
               /\ result[t].kind = "counter"
               /\ result[t].val \in allocated

\* A caller whose candidate lost the install is at its final re-read.
C17_Witness ==
    \E t \in Threads :
        /\ pc[t] = "gw_ret"
        /\ Cardinality({c \in allocated : boundTo[c] = arg[t]}) = 2

\* Threads between lock() and unlock() on Counter c.
Holders(c) == {t \in Threads : pc[t] \in Holding /\ arg[t] = c}

\* C18: the flag of a Counter is 0 or 1; it is 1 exactly while one thread is
\* between lock() and unlock() on the Counter, and it is 0 whenever no
\* materialize or clear call is in progress on the Counter.
C18_FlagReleased ==
    \A c \in Counters :
        /\ lockWord[c] \in {0, 1}
        /\ Cardinality(Holders(c)) = lockWord[c]
        /\ ~InProgress(c) => lockWord[c] = 0

\* A materialize call and a clear on the same Counter have both returned and
\* no call is in progress on it.
C18_Witness ==
    \E t, u \in Threads :
        /\ Returned(t, "get") /\ Returned(u, "clear")
        /\ arg[t] = arg[u]
        /\ ~InProgress(arg[t]) /\ lockWord[arg[t]] = 0

\* C19: every Counter is constructed for the native referent whose entry it is
\* offered to and its slot holds that referent or null; so the Counter
\* installed for a referent never refers to another referent, and a candidate
\* that lost the install is in no Cache entry and is returned by no call.
C19_BoundToOwnReferent ==
    /\ \A c \in allocated :
        /\ boundTo[c] \in NativeReferents
        /\ referred[c] \in {boundTo[c], NULL}
        /\ \A r \in Referents : counter_[r] = c => r = boundTo[c]
        /\ counter_[boundTo[c]] # c =>
               \A t \in Threads :
                   result[t] # [kind |-> "counter", val |-> c]
    /\ \A r \in NativeReferents :
        counter_[r] # NULL =>
            /\ counter_[r] \in allocated
            /\ referred[counter_[r]] \in {r, NULL}
    /\ \A t \in Threads :
        pc[t] = "gw_install" =>
            counter[t] \in allocated /\ boundTo[counter[t]] = arg[t]

\* Two referents have their Counters installed; one Counter still refers to
\* its referent, the other has been cleared.
C19_Witness ==
    \E r, q \in NativeReferents :
        /\ r # q
        /\ counter_[r] # NULL /\ counter_[q] # NULL
        /\ referred[counter_[r]] = r
        /\ referred[counter_[q]] = NULL

====
